---- MODULE Spec2Model ----
(***************************************************************************)
(* Model of the tool-call loop of agents/fitness_planner.py and of the     *)
(* fitness step of nodes.py (live-well-ai).                                *)
(*                                                                         *)
(* Text is modelled as a sequence of one-character strings so that         *)
(* str.strip() and str.lower() are computed, not assumed.  Fixed texts of  *)
(* the program (prompts, placeholders, message prefixes) are one token.    *)
(***************************************************************************)
EXTENDS Integers, Sequences, FiniteSets, TLC

VARIABLES state, pc, messages, choice, hops, k, calls, executed, result, update,
          node, trace, seen, summary, error, args, agent, plan

\* the variables of the tool-call loop
loopvars == <<pc, messages, choice, hops, k, calls, executed, result>>

\* the variables of the pipeline run (main.py, nodes.py)
pipevars == <<node, trace, seen, summary, error>>

\* the variables of the stand-alone agents (hydration_supplement.py, consultation.py)
agentvars == <<args, agent, plan>>

vars == <<state, pc, messages, choice, hops, k, calls, executed, result, update,
          node, trace, seen, summary, error, args, agent, plan>>

----------------------------------------------------------------------------
(* Bounds of the model *)

\* most capability requests the engine lists in one response
MaxCalls == 2

\* most capability requests the engine issues over one loop invocation
MaxRequests == 4

\* most weeks in a list of workout weeks, and most weeks a PlanConfig asks for
MaxWeeks == 2

\* most workouts in one week
MaxWorkouts == 2

\* most days a caller asks a forecast for, and most rows the provider sends
MaxDays == 16

\* most workouts per week a user profile states
MaxWorkoutsPerWeek == 7

----------------------------------------------------------------------------
(* Python values *)

\* Python's None, and the marker of a key that a dict does not hold
None == <<"<None>">>
Missing == <<"<missing>">>

\* dict.get(key, default)
Get(d, key, default) == IF d[key] = Missing THEN default ELSE d[key]

\* truthiness of an Optional[str]
Truthy(x) == x # None /\ x # <<>>

Whitespace == {" ", "\n", "\t"}

RECURSIVE LStrip(_)
LStrip(s) == IF s # <<>> /\ Head(s) \in Whitespace THEN LStrip(Tail(s)) ELSE s

RECURSIVE RStrip(_)
RStrip(s) ==
    IF s # <<>> /\ s[Len(s)] \in Whitespace THEN RStrip(SubSeq(s, 1, Len(s) - 1)) ELSE s

\* str.strip()
Strip(s) == RStrip(LStrip(s))

UpperCase == <<"A","B","C","D","E","F","G","H","I","J","K","L","M",
               "N","O","P","Q","R","S","T","U","V","W","X","Y","Z">>
LowerCase == <<"a","b","c","d","e","f","g","h","i","j","k","l","m",
               "n","o","p","q","r","s","t","u","v","w","x","y","z">>

UpperSet == {UpperCase[i] : i \in 1..26}

LowerChar(c) ==
    IF c \in UpperSet
    THEN LowerCase[CHOOSE i \in 1..26 : UpperCase[i] = c]
    ELSE c

\* str.lower()
Lower(s) == [i \in 1..Len(s) |-> LowerChar(s[i])]

----------------------------------------------------------------------------
(* fitness_planner.py: constants and helpers *)

max_tool_hops == 3

SYSTEM == <<"You are a certified fitness coach. ...">>

\* faulty variant: None is passed through instead of becoming the empty string
safe_str_unguarded(x) == x

safe_str(x) == IF x = None THEN <<>> ELSE x

build_user_prompt(user_goal) ==
    <<"User goal & constraints:\n">> \o Strip(user_goal) \o <<"\n\n">>
        \o <<"First, request any tools you need ...">>

NoGoalText == <<"Please provide your goal and constraints in 'user_goal'.">>

TimeName == <<"t","i","m","e">>
WeatherName == <<"w","e","a","t","h","e","r">>

\* tools/singapore_time.py, tools/singapore_weather.py: the text a tool
\* returns when it does not raise
singapore_time == <<"Time in Singapore now: ...">>
singapore_weather == <<"<date>: <condition> ...">>

UnknownToolMarker == "Unknown tool: "

\* outcome of the tool's own code: it returns its text or it raises.
\* singapore_time has no failing path; singapore_weather catches a failed
\* fetch itself but raises on a body that is not a JSON object (line 92).
Outcomes(tool_name) ==
    IF Lower(Strip(tool_name)) = WeatherName THEN {"ok", "raises"} ELSE {"ok"}

\* faulty variant: an unregistered name yields an empty result instead of the marker
execute_tool_silent(tool_name, outcome) ==
    LET tool == Lower(Strip(IF Truthy(tool_name) THEN tool_name ELSE <<>>))
    IN  IF tool \in {TimeName, WeatherName}
        THEN IF outcome = "raises"
             THEN <<"(tool '">> \o tool \o <<"' failed: ...)">>
             ELSE IF tool = TimeName THEN singapore_time ELSE singapore_weather
        ELSE <<>>

execute_tool(tool_name, outcome) ==
    LET tool == Lower(Strip(IF Truthy(tool_name) THEN tool_name ELSE <<>>))
    IN  IF tool \in {TimeName, WeatherName}
        THEN IF outcome = "raises"
             THEN <<"(tool '">> \o tool \o <<"' failed: ...)">>
             ELSE IF tool = TimeName THEN singapore_time ELSE singapore_weather
        ELSE <<UnknownToolMarker>> \o tool

----------------------------------------------------------------------------
(* The reasoning engine: what one chat.completions.create call can return *)

FinishReasons == {"tool_calls", "stop"}

\* message.content of a response
Texts == {None, <<>>, <<" ">>, <<" ", "a">>}

\* message.content of a response that also requests capabilities
RequestTexts == {None, <<" ", "a">>}

\* function names the engine may put in a request: a declared tool, written
\* as execute_tool still accepts it, and a name that is not declared
Names == {<<" ","W","e","a","t","h","e","r">>, <<"b","o","g","u","s">>}

NameLists == UNION {[1..n -> Names] : n \in 0..MaxCalls}

\* the n-th response's requests get ids that no other request has
ToolCalls(n, names) == [i \in 1..Len(names) |-> [id |-> 10 * n + i, name |-> names[i]]]

\* the whole condition of the while loop except the hop bound
IsRequest(r) == r.finish_reason = "tool_calls" /\ r.tool_calls # <<>>

\* responses that request capabilities
RequestResponses(n, budget) ==
    {[finish_reason |-> "tool_calls", content |-> c, tool_calls |-> ToolCalls(n, names)] :
        c \in RequestTexts,
        names \in {l \in NameLists : 0 < Len(l) /\ Len(l) <= budget}}

\* responses the loop does not take for a request: no request list, or a
\* list that comes with another finish reason (never read, one sample)
OtherResponses(n, budget) ==
    {[finish_reason |-> f, content |-> c, tool_calls |-> <<>>] :
        f \in FinishReasons, c \in Texts}
    \cup {[finish_reason |-> "stop", content |-> c, tool_calls |-> ToolCalls(n, <<TimeName>>)] :
            c \in {t \in Texts : budget > 0}}

EngineResponses(n, budget) == RequestResponses(n, budget) \cup OtherResponses(n, budget)

NoChoice == [finish_reason |-> "", content |-> None, tool_calls |-> <<>>]

----------------------------------------------------------------------------
(* Transcript turns *)

Turn(role, content, tool_calls, id) ==
    [role |-> role, content |-> content, tool_calls |-> tool_calls, tool_call_id |-> id]

\* requests issued so far in this invocation
Issued == LET RECURSIVE Sum(_)
              Sum(i) == IF i = 0 THEN 0 ELSE calls[i].nreq + Sum(i - 1)
          IN  Sum(Len(calls))

CallRecord(policy, msgs, r) ==
    [policy |-> policy, sent |-> Len(msgs), finish_reason |-> r.finish_reason,
     content |-> r.content, nreq |-> Len(r.tool_calls)]

----------------------------------------------------------------------------
(* fitness_planner, lines 95-131: what the loop does with a response *)

\* faulty variant: the hop test is off by one
LoopCondOffByOne(r, h) == IsRequest(r) /\ h <= max_tool_hops

\* line 95: the while condition
LoopCond(r, h) == IsRequest(r) /\ h < max_tool_hops

\* faulty variant: the answer is returned as the engine sent it
FinalAnswerRaw(r) == r.content

\* line 131: the text returned for a response that has content
FinalAnswer(r) == Strip(r.content)

\* tool_choice of the three calls (lines 87, 124; lines 134-138 pass no tools)
FirstPolicy == "required"

NextPolicy == "auto"

\* faulty variant: the last call still offers the tools
FallbackPolicyAuto == "auto"

FallbackPolicy == "none"

\* nodes.py, fitness_planner_node, lines 26-37: what the step returns for
\* the result of fitness_planner
NodeUpdate(res) ==
    LET plain_text == Strip(Get(res, "fitness_plan", <<>>))
    IN  IF plain_text # <<>>
        THEN [fitness_plan |-> plain_text, user_context |-> Get(state, "user_goal", <<>>)]
        ELSE [fitness_plan |-> Missing, user_context |-> Missing]

\* fitness_planner returns res to fitness_planner_node, which returns its update
Return(res) ==
    /\ result' = res
    /\ update' = NodeUpdate(res)
    /\ pc' = "done"

Dispatch(r, msgs, h) ==
    /\ choice' = r
    /\ IF LoopCond(r, h)
       THEN /\ hops' = h + 1
            /\ messages' = Append(msgs, Turn("assistant", r.content, r.tool_calls, 0))
            /\ k' = 1
            /\ pc' = "tools"
            /\ UNCHANGED <<result, update>>
       ELSE /\ hops' = h
            /\ messages' = msgs
            /\ k' = k
            /\ IF Truthy(r.content)
               THEN Return([fitness_plan |-> FinalAnswer(r)])
               ELSE /\ pc' = "fallback"
                    /\ UNCHANGED <<result, update>>

----------------------------------------------------------------------------
(* State machine *)

SeedGoals == {Missing, None, <<>>, <<" ">>, <<" ", "g">>}

Init ==
    /\ state \in {[user_goal |-> g] : g \in SeedGoals}
    /\ pc = "start"
    /\ messages = <<>>
    /\ choice = NoChoice
    /\ hops = 0
    /\ k = 0
    /\ calls = <<>>
    /\ executed = <<>>
    /\ result = [fitness_plan |-> Missing]
    /\ update = [fitness_plan |-> Missing, user_context |-> Missing]
    /\ node = "fitness_planner"
    /\ trace = <<>>
    /\ seen = <<>>
    /\ summary = None
    /\ error = "none"
    /\ args = <<>>
    /\ agent = <<>>
    /\ plan = <<>>

\* fitness_planner, lines 74-95: the blank-goal return, or the first call
Start ==
    /\ pc = "start"
    /\ LET goal == Strip(safe_str(Get(state, "user_goal", None)))
       IN  IF goal = <<>>
           THEN /\ Return([fitness_plan |-> NoGoalText])
                /\ UNCHANGED <<messages, choice, hops, k, calls>>
           ELSE LET msgs == <<Turn("system", SYSTEM, <<>>, 0),
                              Turn("user", build_user_prompt(goal), <<>>, 0)>>
                IN  \E r \in EngineResponses(1, MaxRequests) :
                        /\ calls' = <<CallRecord(FirstPolicy, msgs, r)>>
                        /\ Dispatch(r, msgs, 0)
    /\ UNCHANGED <<state, executed>>
    /\ UNCHANGED <<pipevars, agentvars>>

\* faulty variant: the for loop is left after its first iteration
RoundDoneEarly == k > 1

\* line 106: the for loop over choice.message.tool_calls has ended
RoundDone == k > Len(choice.tool_calls)

\* faulty variant: every result turn carries the same id
ResultIdConstant(tc) == 0

\* line 115: the id a result turn carries
ResultId(tc) == tc.id

\* faulty variant: a tool result overwrites the last turn of the transcript
ExecToolOverwriting ==
    /\ pc = "tools"
    /\ k <= Len(choice.tool_calls)
    /\ LET tc == choice.tool_calls[k]
       IN  \E outcome \in Outcomes(tc.name) :
               /\ messages' = [messages EXCEPT ![Len(messages)] =
                                  Turn("tool", safe_str(execute_tool(tc.name, outcome)),
                                       <<>>, tc.id)]
               /\ executed' = Append(executed,
                                     [hop |-> hops, id |-> tc.id, name |-> tc.name,
                                      turn |-> Len(messages)])
    /\ k' = k + 1
    /\ UNCHANGED <<state, pc, choice, hops, calls, result, update>>
    /\ UNCHANGED <<pipevars, agentvars>>

\* lines 106-117: one iteration of the for loop over the requested tools
ExecTool ==
    /\ pc = "tools"
    /\ k <= Len(choice.tool_calls)
    /\ LET tc == choice.tool_calls[k]
       IN  \E outcome \in Outcomes(tc.name) :
               LET result_text == execute_tool(tc.name, outcome)
               IN  /\ messages' = Append(messages,
                                         Turn("tool", safe_str(result_text), <<>>, ResultId(tc)))
                   /\ executed' = Append(executed,
                                         [hop |-> hops, id |-> tc.id, name |-> tc.name,
                                          turn |-> Len(messages) + 1])
    /\ k' = k + 1
    /\ UNCHANGED <<state, pc, choice, hops, calls, result, update>>
    /\ UNCHANGED <<pipevars, agentvars>>

\* lines 119-127 and the loop test: ask again with the tool outputs
ReSend ==
    /\ pc = "tools"
    /\ RoundDone
    /\ \E r \in EngineResponses(Len(calls) + 1, MaxRequests - Issued) :
           /\ calls' = Append(calls, CallRecord(NextPolicy, messages, r))
           /\ Dispatch(r, messages, hops)
    /\ UNCHANGED <<state, executed>>
    /\ UNCHANGED <<pipevars, agentvars>>

\* lines 133-139: ask once more without tools
Fallback ==
    /\ pc = "fallback"
    /\ \E c \in Texts :
           /\ calls' = Append(calls, CallRecord(FallbackPolicy, messages,
                                  [finish_reason |-> "stop", content |-> c, tool_calls |-> <<>>]))
           /\ IF c = None
              THEN /\ pc' = "raised"
                   /\ UNCHANGED <<result, update>>
              ELSE Return([fitness_plan |-> Strip(c)])
    /\ UNCHANGED <<state, messages, choice, hops, k, executed>>
    /\ UNCHANGED <<pipevars, agentvars>>

Next == Start \/ ExecTool \/ ReSend \/ Fallback

Spec == Init /\ [][Next]_vars

----------------------------------------------------------------------------
(* Vocabulary of the properties *)

\* the function has returned or raised
Finished == pc \in {"done", "raised"}

\* the i-th call was answered with capability requests (the loop's own test)
Requested(i) == calls[i].finish_reason = "tool_calls" /\ calls[i].nreq > 0

\* a text that is blank: absent, None, or nothing but whitespace
Blank(g) == g \in {Missing, None} \/ \A i \in 1..Len(g) : g[i] \in Whitespace

\* the transcript turn appended for the j-th execution
ResultTurn(j) == messages[executed[j].turn]

\* the i-th request of the assistant turn at position p of the transcript
RequestAt(p, i) == messages[p].tool_calls[i]

\* the executions of one round, in order
ExecutedIn(h) == SelectSeq(executed, LAMBDA e : e.hop = h)

\* the name execute_tool looks up for a requested name
Normalised(name) == Lower(Strip(name))

----------------------------------------------------------------------------
(* C1 *)

\* C1: whatever the engine answers, one invocation makes at most
\* max_tool_hops + 2 = 5 reasoning-engine calls and the hop counter never
\* exceeds max_tool_hops.
C1_CallBound == Len(calls) <= max_tool_hops + 2 /\ Len(calls) <= 5 /\ hops <= max_tool_hops

C1_Witness == Len(calls) = max_tool_hops + 2 /\ hops = max_tool_hops

(* C2 *)

\* C2: when every call that offers tools is answered with a capability
\* request (and no text), the invocation makes exactly 5 calls and ends with
\* non-empty final text.
C2_AlwaysRequesting ==
    (/\ Finished
     /\ calls # <<>>
     /\ \A i \in 1..Len(calls) :
            calls[i].policy # FallbackPolicy => Requested(i) /\ ~Truthy(calls[i].content))
    => /\ Len(calls) = max_tool_hops + 2
       /\ pc # "raised"
       /\ Truthy(result.fitness_plan)

(* C3 *)

\* C3: the text the loop returns after the call made without tools is never
\* the empty string.
C3_FallbackNonEmpty ==
    (pc = "done" /\ calls # <<>> /\ calls[Len(calls)].policy = FallbackPolicy)
    => Truthy(result.fitness_plan)

(* C4 *)

\* C4: fitness_planner never raises while every engine call returns a
\* response.
C4_NeverRaises == pc # "raised"

(* C5 *)

\* C5 as stated: a request whose name is not literally 'time' or 'weather'
\* gets a result turn that carries the 'Unknown tool' marker.
C5_Original ==
    \A j \in 1..Len(executed) :
        executed[j].name \notin {TimeName, WeatherName}
        => /\ ResultTurn(j).role = "tool"
           /\ ResultTurn(j).content # <<>>
           /\ Head(ResultTurn(j).content) = UnknownToolMarker

\* the i-th response was taken for a capability request and its round has
\* got past its j-th request
PastRequest(i, j) == hops > i \/ pc # "tools" \/ k > j

\* C5 amended: when a response with finish_reason 'tool_calls' requests,
\* while hops < max_tool_hops, a capability whose name, stripped and
\* lower-cased, is not 'time' or 'weather', the loop does not raise and does
\* not stop: it appends a result turn tagged with that request's id whose
\* content carries the 'Unknown tool' marker, and sends the next
\* reasoning-engine call after the round.
C5_UnknownTool ==
    \A i \in 1..Len(calls) :
        (Requested(i) /\ i <= max_tool_hops)
        => LET p == calls[i].sent + 1
           IN  /\ hops >= i
               /\ p <= Len(messages)
               /\ messages[p].role = "assistant"
               /\ Len(messages[p].tool_calls) = calls[i].nreq
               /\ \A j \in 1..calls[i].nreq :
                      (/\ Normalised(messages[p].tool_calls[j].name) \notin {TimeName, WeatherName}
                       /\ PastRequest(i, j))
                      => /\ p + j <= Len(messages)
                         /\ messages[p + j].role = "tool"
                         /\ messages[p + j].tool_call_id = messages[p].tool_calls[j].id
                         /\ messages[p + j].content # <<>>
                         /\ Head(messages[p + j].content) = UnknownToolMarker
                         /\ (hops > i \/ pc # "tools")
                            => /\ Len(calls) > i
                               /\ calls[i + 1].policy = NextPolicy
                               /\ calls[i + 1].sent = p + calls[i].nreq

C5_Witness ==
    \E j \in 1..Len(executed) :
        /\ executed[j].name = <<"b","o","g","u","s">>
        /\ Len(calls) > executed[j].hop
        /\ calls[executed[j].hop + 1].policy = NextPolicy

(* C6 *)

\* C6 as stated: a first response that is final text is returned unchanged
\* after exactly one call and no capability execution.
C6_Original ==
    (pc = "done" /\ calls # <<>> /\ Truthy(calls[1].content) /\ calls[1].nreq = 0)
    => /\ Len(calls) = 1
       /\ executed = <<>>
       /\ result.fitness_plan = calls[1].content

\* C6 amended: a first response that is final text is returned with its
\* leading and trailing whitespace removed, after exactly one call and no
\* capability execution.
C6_SingleCall ==
    (pc = "done" /\ calls # <<>> /\ Truthy(calls[1].content) /\ calls[1].nreq = 0)
    => /\ Len(calls) = 1
       /\ executed = <<>>
       /\ result.fitness_plan = Strip(calls[1].content)

C6_Witness ==
    /\ pc = "done"
    /\ Len(calls) = 1
    /\ calls[1].content = <<" ", "a">>
    /\ calls[1].nreq = 0
    /\ result.fitness_plan = <<"a">>

(* C7 *)

\* C7: a response that carries capability requests once hops = max_tool_hops
\* leads to no execution and to exactly one more call, made without tools,
\* whose text is what the loop returns.
C7_FallbackAtBound ==
    \A i \in 1..Len(calls) :
        (Requested(i) /\ i = max_tool_hops + 1)
        => /\ ExecutedIn(max_tool_hops + 1) = <<>>
           /\ \/ pc = "fallback" /\ Len(calls) = i
              \/ /\ pc = "done"
                 /\ Len(calls) = i + 1
                 /\ calls[i + 1].policy = FallbackPolicy
                 /\ calls[i + 1].sent = Len(messages)
                 /\ result.fitness_plan \in {calls[i + 1].content, Strip(calls[i + 1].content)}

(* C8 *)

\* the i-th response carries capability requests, whatever its finish reason
Carries(i) == calls[i].nreq > 0

\* the round of the i-th response: the assistant turn, then one result turn
\* per request in the listed order, each execution once and in that order,
\* and the next call only over the complete round
RoundOf(i) ==
    LET p == calls[i].sent + 1
        n == calls[i].nreq
        done == IF hops > i \/ pc # "tools" THEN n ELSE k - 1
    IN  /\ hops >= i
        /\ p + done = (IF Len(calls) > i THEN calls[i + 1].sent ELSE Len(messages))
        /\ messages[p].role = "assistant"
        /\ Len(messages[p].tool_calls) = n
        /\ \A j \in 1..done :
               /\ messages[p + j].role = "tool"
               /\ messages[p + j].tool_call_id = RequestAt(p, j).id
        /\ ExecutedIn(i) =
               [j \in 1..done |-> [hop |-> i, id |-> RequestAt(p, j).id,
                                    name |-> RequestAt(p, j).name, turn |-> p + j]]
        /\ IF done = n /\ (hops > i \/ pc # "tools")
           THEN Len(calls) > i /\ calls[i + 1].policy = NextPolicy
           ELSE Len(calls) = i /\ pc = "tools" /\ messages[p].tool_calls = choice.tool_calls

\* C8 as stated: every response that carries capability requests while
\* hops < max_tool_hops gets its round.
C8_Original ==
    \A i \in 1..Len(calls) : (Carries(i) /\ i <= max_tool_hops) => RoundOf(i)

\* C8 amended: whenever a response with finish_reason 'tool_calls' carries
\* capability requests and hops < max_tool_hops, the loop appends the
\* assistant's request turn, then executes every request exactly once in the
\* listed order and appends one result turn per request, tagged with that
\* request's id, in the same order; the next reasoning-engine call is sent
\* only after all results of the round are in the transcript.
C8_RoundOrder ==
    /\ \A i \in 1..Len(calls) : (Requested(i) /\ i <= max_tool_hops) => RoundOf(i)
    /\ \A j \in 1..Len(executed) :
           executed[j].hop \in 1..hops /\ Requested(executed[j].hop)

C8_Witness ==
    \E i \in 2..Len(calls) :
        /\ calls[i].policy = NextPolicy
        /\ calls[i - 1].nreq = 2
        /\ calls[i].sent = calls[i - 1].sent + 3
        /\ messages[calls[i].sent].tool_call_id # messages[calls[i].sent - 1].tool_call_id

(* C9 *)

\* C9: the first call is sent with policy 'required', every call sent after
\* a capability round with policy 'auto', and the call without tools, if
\* made, is the last call of the invocation.
C9_PolicySequence ==
    /\ \A i \in 1..Len(calls) :
           calls[i].policy = IF i = 1 THEN "required"
                             ELSE IF i <= hops + 1 THEN "auto"
                             ELSE "none"
    /\ \A i \in 1..Len(calls) : calls[i].policy = "none" => i = Len(calls) /\ pc # "tools"
    /\ Len(calls) <= hops + 2
    /\ pc \in {"tools", "fallback"} \/ Finished => Len(calls) >= hops

C9_Witness ==
    /\ Len(calls) = 3
    /\ calls[1].policy = "required"
    /\ calls[2].policy = "auto"
    /\ calls[3].policy = "none"

(* C10 *)

\* C10: with a blank user_goal the fitness step makes no reasoning-engine
\* call, executes no capability, does not raise, and returns a non-empty
\* placeholder as fitness_plan.
C10_BlankGoal ==
    Blank(state.user_goal)
    => /\ calls = <<>>
       /\ executed = <<>>
       /\ messages = <<>>
       /\ pc \in {"start", "done"}
       /\ pc = "done" => result.fitness_plan = NoGoalText /\ update.fitness_plan = NoGoalText
       /\ NoGoalText # <<>>

C10_Witness ==
    /\ state.user_goal = <<" ">>
    /\ pc = "done"
    /\ update.fitness_plan # Missing


\* ---------------------------------------------------------------------
\* agents/summarizer.py: summarizer(state, detailed)
\* ---------------------------------------------------------------------

\* lines 17-21: the five fields the summarizer reads; an absent field reads
\* as its empty default ([] or {})
summarizer_reads(st) ==
    [messages       |-> Get(st, "messages", <<>>),
     fitness_plan   |-> Get(st, "fitness_plan", <<>>),
     nutrition_plan |-> Get(st, "nutrition_plan", <<>>),
     supplements    |-> Get(st, "supplements", <<>>),
     user_goals     |-> Get(st, "user_goals", <<>>)]

NoDataText == <<"No consultation data to summarize.">>

NoContentText == <<"No consultation content to summarize.">>

\* lines 48-50: every message's content followed by a newline
RECURSIVE conversation_text(_)
conversation_text(msgs) ==
    IF msgs = <<>> THEN <<>>
    ELSE <<Head(msgs), "\n">> \o conversation_text(Tail(msgs))

\* lines 28-51
consultation_context(r) ==
    (IF Truthy(r.user_goals)
        THEN <<"User Goals: ">> \o r.user_goals \o <<"\n", "\n">> ELSE <<>>)
    \o (IF Truthy(r.fitness_plan)
        THEN <<"Fitness Plan: ">> \o r.fitness_plan \o <<"\n", "\n">> ELSE <<>>)
    \o (IF Truthy(r.nutrition_plan)
        THEN <<"Nutrition Plan: ">> \o r.nutrition_plan \o <<"\n", "\n">> ELSE <<>>)
    \o (IF Truthy(r.supplements)
        THEN <<"Supplement Recommendations: ">> \o r.supplements \o <<"\n", "\n">>
        ELSE <<>>)
    \o (IF Truthy(r.messages)
        THEN <<"Conversation Details: ">> \o conversation_text(r.messages)
        ELSE <<>>)

\* what the LLM call of lines 101-105 can do: raise, or answer with a content
Raises == <<"<raises>">>

LLMOutcomes == {Raises, <<>>, <<" ", "s", " ">>}

\* lines 107-122: the stripped answer between the header and the disclaimer
formatted_summary(content) ==
    <<"\n", "LIVE WELL AI - YOUR PERSONALIZED ACTION PLAN", "\n">>
        \o Strip(content) \o <<"\n", "DISCLAIMER ...", "\n">>

\* lines 126-133
plan_items(r) ==
    (IF Truthy(r.fitness_plan) THEN 1 ELSE 0)
    + (IF Truthy(r.nutrition_plan) THEN 1 ELSE 0)
    + (IF Truthy(r.supplements) THEN 1 ELSE 0)

\* lines 124-149: the summary returned when the LLM call raised
fallback_summary(r) ==
    <<"\n", "LIVE WELL AI - CONSULTATION SUMMARY", "\n",
      "Goals Identified: ", ToString(IF Truthy(r.user_goals) THEN Len(r.user_goals) ELSE 0),
      "\n", "Plans Generated: ", ToString(plan_items(r)), "\n",
      "Unable to generate detailed summary at this time.", "\n",
      "DISCLAIMER ...", "\n">>

\* faulty variant: the LLM is called even when there is nothing to summarize
has_data_always(r) == TRUE

\* lines 23-25: there are messages, or one of the three plans
has_data(r) ==
    Truthy(r.messages)
        \/ Truthy(r.fitness_plan) \/ Truthy(r.nutrition_plan) \/ Truthy(r.supplements)

\* the text summarizer returns, and whether it went as far as the LLM call
summarizer(st, llm) ==
    LET r == summarizer_reads(st)
    IN  IF ~has_data(r)
        THEN [text |-> NoDataText, called |-> FALSE]
        ELSE IF Strip(consultation_context(r)) = <<>>
        THEN [text |-> NoContentText, called |-> FALSE]
        ELSE IF llm = Raises
        THEN [text |-> fallback_summary(r), called |-> TRUE]
        ELSE [text |-> formatted_summary(llm), called |-> TRUE]


\* ---------------------------------------------------------------------
\* main.py and nodes.py: one run of the pipeline
\* ---------------------------------------------------------------------

\* main.py 27-38: the nodes in the order of the edges START -> ... -> END
Order == <<"human", "fitness_planner", "nutritionist", "hydration", "summarizer">>

\* the node the edge out of position i leads to
EdgeFrom(i) == IF i < Len(Order) THEN Order[i + 1] ELSE "END"

\* position of a node in the declared order
Position(n) == CHOOSE i \in 1..Len(Order) : Order[i] = n

\* faulty variant: the edge out of the fitness step skips the nutrition step
SuccessorSkipping(n) == IF n = "fitness_planner" THEN "hydration" ELSE EdgeFrom(Position(n))

Successor(n) == EdgeFrom(Position(n))

\* state.py 4-12 with main.py 53-58: the seed has no user_context; the
\* last three keys are read by the summarizer but are no fields of State
initial_state ==
    [user_goal |-> <<>>, fitness_plan |-> <<>>, nutrition_plan |-> <<>>,
     hydration_supplement |-> <<>>, user_context |-> Missing,
     messages |-> Missing, supplements |-> Missing, user_goals |-> Missing]

\* the empty partial update {}
IsEmpty(upd) == \A key \in DOMAIN upd : upd[key] = Missing

\* the graph applies a node's partial update: the keys it has are overwritten
Apply(st, upd) ==
    [key \in DOMAIN st |->
        IF key \in DOMAIN upd /\ upd[key] # Missing THEN upd[key] ELSE st[key]]

\* what the user types at the prompt (nodes.py 12)
Typed == {<<>>, <<" ">>, <<" ", "g">>, <<"g", " ">>, <<"exit">>}

\* nodes.py 8-19
human_update(typed) ==
    [user_goal |-> Strip(typed), fitness_plan |-> <<>>, nutrition_plan |-> <<>>,
     hydration_supplement |-> <<>>]

\* fitness_planner.py 69-139 as its caller sees it: the placeholder for a
\* blank goal (76); else the stripped text of an answer (131) or of the
\* fallback (139), AttributeError when the fallback has no content (139), or
\* the exception of a create() call that fails (83, 120, 134), which no
\* statement of the function catches
fitness_planner(st) ==
    IF Strip(safe_str(Get(st, "user_goal", None))) = <<>>
    THEN {[raised |-> "none", fitness_plan |-> NoGoalText]}
    ELSE {[raised |-> "none", fitness_plan |-> Strip(c)] : c \in Texts \ {None}}
         \cup {[raised |-> e, fitness_plan |-> Missing] : e \in {"AttributeError", "APIError"}}

\* the texts a specialist step hands to its node
StepTexts == {<<"p">>, <<" ", "p", " ">>, <<"q">>}

\* agents.nutritionist.nutritionist(state): a specialist step returns its
\* output field with a real answer or a readable placeholder
nutritionist(st) == {[nutrition_plan |-> t] : t \in StepTexts}

\* agents.hydration_supplement.hydration_supplement(state), likewise
hydration_supplement(st) == {[hydration_supplement |-> t] : t \in StepTexts}

\* faulty variant: the nutrition step also resets the fitness plan
nutritionist_update_resetting(res) ==
    [nutrition_plan |-> Strip(Get(res, "nutrition_plan", <<>>)), fitness_plan |-> <<>>]

\* nodes.py 45-52
nutritionist_update(res) ==
    LET plain_text == Strip(Get(res, "nutrition_plan", <<>>))
    IN  [nutrition_plan |-> IF plain_text # <<>> THEN plain_text ELSE Missing]

\* nodes.py 60-67
hydration_update(res) ==
    LET plain_text == Strip(Get(res, "hydration_supplement", <<>>))
    IN  [hydration_supplement |-> IF plain_text # <<>> THEN plain_text ELSE Missing]

\* nodes.py 78: the summary step returns {}
summarizer_update == [fitness_plan |-> Missing]

\* a node returned upd: the graph applies it and follows the edge
Returned(upd) ==
    /\ update' = upd
    /\ state' = Apply(state, upd)
    /\ trace' = Append(trace, node)
    /\ node' = Successor(node)

\* a node raised e: graph.invoke raises, main.py 60-71 prints the error
Raised(e) ==
    /\ error' = e
    /\ trace' = Append(trace, node)
    /\ node' = "aborted"
    /\ UNCHANGED <<state, update>>

PInit ==
    /\ state = initial_state
    /\ node = Order[1]
    /\ trace = <<>>
    /\ update = [fitness_plan |-> Missing]
    /\ result = [fitness_plan |-> Missing]
    /\ seen = <<>>
    /\ summary = None
    /\ error = "none"
    /\ pc = "start" /\ messages = <<>> /\ choice = NoChoice /\ hops = 0 /\ k = 0
    /\ calls = <<>> /\ executed = <<>>
    /\ args = <<>> /\ agent = <<>> /\ plan = <<>>

human_node ==
    /\ node = "human"
    /\ \E typed \in Typed : Returned(human_update(typed))
    /\ UNCHANGED <<result, seen, summary, error>>
    /\ UNCHANGED <<pc, messages, choice, hops, k, calls, executed, agentvars>>

fitness_planner_node ==
    /\ node = "fitness_planner"
    /\ \E out \in fitness_planner(state) :
          IF out.raised = "none"
          THEN /\ result' = [fitness_plan |-> out.fitness_plan]
               /\ Returned(NodeUpdate([fitness_plan |-> out.fitness_plan]))
               /\ UNCHANGED error
          ELSE /\ Raised(out.raised)
               /\ UNCHANGED result
    /\ UNCHANGED <<seen, summary>>
    /\ UNCHANGED <<pc, messages, choice, hops, k, calls, executed, agentvars>>

nutritionist_node ==
    /\ node = "nutritionist"
    /\ \E res \in nutritionist(state) :
          /\ result' = res
          /\ Returned(nutritionist_update(res))
    /\ UNCHANGED <<seen, summary, error>>
    /\ UNCHANGED <<pc, messages, choice, hops, k, calls, executed, agentvars>>

hydration_supplement_node ==
    /\ node = "hydration"
    /\ \E res \in hydration_supplement(state) :
          /\ result' = res
          /\ Returned(hydration_update(res))
    /\ UNCHANGED <<seen, summary, error>>
    /\ UNCHANGED <<pc, messages, choice, hops, k, calls, executed, agentvars>>

summarizer_node ==
    /\ node = "summarizer"
    /\ \E llm \in LLMOutcomes :
          /\ summary' = summarizer(state, llm).text
          /\ seen' = summarizer_reads(state)
    /\ Returned(summarizer_update)
    /\ UNCHANGED <<result, error>>
    /\ UNCHANGED <<pc, messages, choice, hops, k, calls, executed, agentvars>>

PNext ==
    \/ human_node
    \/ fitness_planner_node
    \/ nutritionist_node
    \/ hydration_supplement_node
    \/ summarizer_node

PSpec == PInit /\ [][PNext]_vars


\* ---------------------------------------------------------------------
\* properties of the pipeline run
\* ---------------------------------------------------------------------

\* the run is over: the last edge was followed, or a step raised
RunEnded == node \in {"END", "aborted"}

\* C11: when an engine call of the fitness step fails, the step turns the
\* failure into a readable fitness_plan, the run is not aborted by it, and
\* the later steps still run.
C11_TransportFailureAbsorbed ==
    error = "APIError" =>
        /\ node # "aborted"
        /\ ~Blank(state.fitness_plan)
        /\ (node = "END" => trace = Order)


\* the steps run so far are the first steps of the declared order
InOrder == Len(trace) <= Len(Order) /\ trace = SubSeq(Order, 1, Len(trace))

\* a step has just returned the empty update
ReturnedEmpty == trace' # trace /\ error' = error /\ IsEmpty(update')

Summarized == Len(trace) = Len(Order)

\* C13: the summary step reads the user goal, the fitness plan, the
\* nutrition plan and the hydration/supplement plan exactly as the earlier
\* steps wrote them, and every field it reads was seeded or written before.
C13_SummaryReadsWrites ==
    Summarized =>
        /\ seen.user_goals = state.user_goal
        /\ seen.fitness_plan = state.fitness_plan
        /\ seen.nutrition_plan = state.nutrition_plan
        /\ seen.supplements = state.hydration_supplement
        /\ \A key \in DOMAIN seen : state[key] # Missing


\* C14: at the end of every run that was not aborted, fitness_plan,
\* nutrition_plan and hydration_supplement each hold non-blank text, a real
\* answer or a placeholder, also when an agent produced empty text.
C14_OutputsPopulated ==
    node = "END" =>
        /\ ~Blank(state.fitness_plan)
        /\ ~Blank(state.nutrition_plan)
        /\ ~Blank(state.hydration_supplement)


\* the fields each step may change, in the words of the claim
Writes(n) ==
    CASE n = "human" -> {"user_goal", "fitness_plan", "nutrition_plan", "hydration_supplement"}
      [] n = "fitness_planner" -> {"fitness_plan", "user_context"}
      [] n = "nutritionist" -> {"nutrition_plan"}
      [] n = "hydration" -> {"hydration_supplement"}
      [] OTHER -> {}

\* C15: the state changes only by a step's partial update being applied:
\* every field keeps its value or takes the one the update holds; the
\* fitness step changes at most fitness_plan and user_context, the nutrition
\* step at most nutrition_plan, the hydration step at most
\* hydration_supplement, the summary step nothing; {} changes nothing.
C15_Frame ==
    [][/\ \A key \in DOMAIN state :
             \/ state'[key] = state[key]
             \/ /\ key \in Writes(node)
                /\ key \in DOMAIN update'
                /\ state'[key] = update'[key]
       /\ (trace' # trace /\ IsEmpty(update') => state' = state)
       /\ (trace' # trace /\ error' = error =>
              \A key \in DOMAIN update' :
                  update'[key] # Missing => state'[key] = update'[key])]_vars

\* the fitness step has written both of its fields and the run went on to
\* its end, the summary step changing nothing
C15_Witness ==
    /\ node = "END"
    /\ state.user_context # Missing
    /\ ~Blank(state.fitness_plan)
    /\ ~Blank(state.nutrition_plan)
    /\ IsEmpty(update)


\* ---------------------------------------------------------------------
\* the transcript of the fitness step
\* ---------------------------------------------------------------------

\* a is an initial part of b
IsPrefix(a, b) == Len(a) <= Len(b) /\ SubSeq(b, 1, Len(a)) = a

\* the transcript as it was sent with the i-th engine call
Sent(i) == SubSeq(messages, 1, calls[i].sent)

\* C16: the transcript starts as exactly [system, user] and only grows by
\* appending: no turn is removed, reordered or rewritten, each engine call
\* sends the whole transcript of that moment, so what was sent before is a
\* prefix of it, and the update of the step carries the final text and the
\* goal, never the transcript.
C16_TranscriptAppendOnly ==
    /\ [](calls # <<>> =>
            /\ calls[1].sent = 2
            /\ Sent(1) = <<Turn("system", SYSTEM, <<>>, 0),
                           Turn("user", build_user_prompt(Strip(state.user_goal)), <<>>, 0)>>
            /\ \A i \in 2..Len(calls) :
                  /\ calls[i].sent <= Len(messages)
                  /\ IsPrefix(Sent(i - 1), Sent(i)))
    /\ [][/\ IsPrefix(messages, messages')
          /\ (calls' # calls =>
                 /\ Len(messages) <= calls'[Len(calls')].sent
                 /\ calls'[Len(calls')].sent <= Len(messages'))]_vars
    /\ [](/\ DOMAIN update = {"fitness_plan", "user_context"}
          /\ update.fitness_plan \in {Missing, Strip(result.fitness_plan)}
          /\ update.user_context \in {Missing, Get(state, "user_goal", <<>>)}
          /\ DOMAIN state = {"user_goal"})

\* three engine calls were made, tool results were appended in between, and
\* the step returned its update
C16_Witness ==
    /\ pc = "done"
    /\ Len(calls) >= 3
    /\ Len(executed) >= 2
    /\ calls[Len(calls)].sent > calls[1].sent
    /\ update.fitness_plan # Missing


\* ---------------------------------------------------------------------
\* agents/hydration_supplement.py: HydrationSupplementAgent
\* ---------------------------------------------------------------------

\* line 92: the day keys of a week's day map, in their order
Days == <<"Mon", "Tue", "Wed", "Thu", "Fri", "Sat", "Sun">>

DaySet == {Days[i] : i \in 1..Len(Days)}

\* line 44: PlanConfig().weeks
DefaultWeeks == 4

\* Workout values (lines 35-40): two on the same day, one on another day
Workouts ==
    {[day_of_week |-> "Mon", minutes |-> 45],
     [day_of_week |-> "Mon", minutes |-> 30],
     [day_of_week |-> "Wed", minutes |-> 30]}

\* the lists of at most n elements of S
SeqUpTo(S, n) == UNION {[1..m -> S] : m \in 0..n}

\* line 58: the test of the constructor
weeks_mismatch(workouts_by_week, cfg_weeks) == Len(workouts_by_week) # cfg_weeks

\* lines 57-63: the constructor raises ValueError or sets the agent's fields
NewAgent(workouts_by_week, cfg_weeks) ==
    [raised |-> IF weeks_mismatch(workouts_by_week, cfg_weeks) THEN "ValueError" ELSE "none",
     weeks  |-> workouts_by_week,
     cfg    |-> [weeks |-> cfg_weeks]]

\* lines 80-86
hydration_for_workout(w) ==
    [workout |-> w,
     pre     |-> "Drink 5-7 ml/kg at T-4h; optional top-up 3-5 ml/kg at T-2h",
     during  |-> "0.4-0.8 L per hour; add sodium if >60min or very sweaty",
     post    |-> "Replace 125-150% of weight lost; or ~0.6 L/hour if no scale"]

\* faulty variant: a workout is put in front of the earlier ones of its day
day_map_prepending(days, week) ==
    LET RECURSIVE Fill(_, _)
        Fill(dm, ws) ==
            IF ws = <<>> THEN dm
            ELSE Fill([dm EXCEPT ![Head(ws).day_of_week] =
                          <<hydration_for_workout(Head(ws))>> \o @], Tail(ws))
    IN  Fill(days, week)

\* lines 92-94: the for loop appending each workout under its day
day_map(days, week) ==
    LET RECURSIVE Fill(_, _)
        Fill(dm, ws) ==
            IF ws = <<>> THEN dm
            ELSE Fill([dm EXCEPT ![Head(ws).day_of_week] =
                          Append(@, hydration_for_workout(Head(ws)))], Tail(ws))
    IN  Fill(days, week)

\* lines 77-78 for the user of consultation.py 61-65: round(70 * 35)
daily_baseline_ml == 70 * 35

\* lines 89-100: the list under the key "plan"
generate_hydration_plan(a) ==
    [i \in 1..Len(a.weeks) |->
        [week |-> i,
         daily_baseline_target_ml |-> daily_baseline_ml,
         days |-> day_map([d \in DaySet |-> <<>>], a.weeks[i])]]

\* lines 102-124
generate(a) ==
    [hydration_plan |-> generate_hydration_plan(a),
     supplement_cheatsheet |-> <<"Protein powder", "Creatine monohydrate">>]


\* ---------------------------------------------------------------------
\* agents/consultation.py: run_consultation(user_input)
\* ---------------------------------------------------------------------

\* lines 69-73
week_pattern ==
    <<[day_of_week |-> "Mon", minutes |-> 45],
      [day_of_week |-> "Wed", minutes |-> 30],
      [day_of_week |-> "Sat", minutes |-> 60]>>

\* line 74: range(2)
ConsultationWeeks == 2

\* line 74
workouts_by_week == [i \in 1..ConsultationWeeks |-> week_pattern]

\* lines 20-56: the state after the goals, the stubbed fitness plan and the
\* stubbed nutrition plan were written
consultation_state(user_input) ==
    [messages       |-> <<"Generated fitness plan: {...}", "Generated nutrition plan: {...}">>,
     user_goals     |-> <<"{'goal': '">> \o user_input \o <<"'}">>,
     fitness_plan   |-> <<"{'week1': [...], 'week2': [...]}">>,
     nutrition_plan |-> <<"{'calories_per_day': 1500, ...}">>,
     supplements    |-> Missing]

\* lines 77-84: the state after the supplements were written
with_supplements(st, a) ==
    [st EXCEPT !.supplements = <<ToString(generate(a))>>,
               !.messages = Append(@, "Generated hydration & supplements: {...}")]

\* the steps of run_consultation in the order of its statements
ConsultationOrder == <<"goals", "fitness", "nutrition", "hydration", "summarizer">>

\* ---------------------------------------------------------------------
\* calls of the stand-alone agents
\* ---------------------------------------------------------------------

UserInputs == {<<>>, <<"I want to reduce 5kg in 2 weeks">>}

NoState ==
    [messages |-> Missing, user_goals |-> Missing, fitness_plan |-> Missing,
     nutrition_plan |-> Missing, supplements |-> Missing]

\* the states a caller may hand to summarizer: each field absent, empty or
\* filled; a message is given by its content
SummarizerStates ==
    [messages       : {Missing, <<>>, <<"">>, <<"m1", "m2">>},
     user_goals     : {Missing, <<>>, <<"g">>},
     fitness_plan   : {Missing, <<>>, <<" ">>, <<"f">>},
     nutrition_plan : {Missing, <<>>, <<"n">>},
     supplements    : {Missing, <<>>, <<"s">>}]

\* the calls of the constructor: up to max_weeks weeks of up to max_workouts
\* workouts each, for a configuration of 1..max_weeks weeks
HydrationCalls(max_weeks, max_workouts) ==
    {[fn |-> "HydrationSupplementAgent", workouts_by_week |-> w, weeks |-> n,
      user_input |-> <<>>, state |-> NoState] :
        w \in SeqUpTo(SeqUpTo(Workouts, max_workouts), max_weeks), n \in 1..max_weeks}

\* the calls of run_consultation and of summarizer
OtherCalls(inputs) ==
    {[fn |-> "run_consultation", workouts_by_week |-> <<>>, weeks |-> DefaultWeeks,
      user_input |-> u, state |-> NoState] : u \in inputs}
    \cup
    {[fn |-> "summarizer", workouts_by_week |-> <<>>, weeks |-> DefaultWeeks,
      user_input |-> <<>>, state |-> st] : st \in SummarizerStates}

AInit ==
    /\ args \in HydrationCalls(MaxWeeks, MaxWorkouts) \cup OtherCalls(UserInputs)
    /\ state = args.state
    /\ node = "call"
    /\ agent = <<>>
    /\ plan = <<>>
    /\ trace = <<>>
    /\ seen = <<>>
    /\ summary = None
    /\ error = "none"
    /\ result = [text |-> None, called |-> FALSE, llm |-> None]
    /\ update = [fitness_plan |-> Missing]
    /\ pc = "start" /\ messages = <<>> /\ choice = NoChoice /\ hops = 0 /\ k = 0
    /\ calls = <<>> /\ executed = <<>>

\* HydrationSupplementAgent(user, climate, workouts_by_week, cfg)
HydrationSupplementAgent ==
    /\ node = "call"
    /\ args.fn = "HydrationSupplementAgent"
    /\ LET a == NewAgent(args.workouts_by_week, args.weeks)
       IN  IF a.raised # "none"
           THEN /\ error' = a.raised
                /\ node' = "raised"
                /\ UNCHANGED agent
           ELSE /\ agent' = a
                /\ node' = "constructed"
                /\ UNCHANGED error
    /\ UNCHANGED <<args, plan, state, trace, seen, summary, result, update>>
    /\ UNCHANGED <<pc, messages, choice, hops, k, calls, executed>>

\* agent.generate_hydration_plan()
GenerateHydrationPlan ==
    /\ node = "constructed"
    /\ plan' = generate_hydration_plan(agent)
    /\ node' = "done"
    /\ UNCHANGED <<args, agent, state, trace, seen, summary, result, update, error>>
    /\ UNCHANGED <<pc, messages, choice, hops, k, calls, executed>>

\* run_consultation(user_input), lines 11-90
run_consultation ==
    /\ node = "call"
    /\ args.fn = "run_consultation"
    /\ LET st == consultation_state(args.user_input)
           a  == NewAgent(workouts_by_week, DefaultWeeks)
       IN  IF a.raised # "none"
           THEN /\ error' = a.raised
                /\ state' = st
                /\ trace' = SubSeq(ConsultationOrder, 1, 4)
                /\ node' = "raised"
                /\ UNCHANGED <<agent, summary, seen, result>>
           ELSE \E llm \in LLMOutcomes :
                /\ agent' = a
                /\ state' = with_supplements(st, a)
                /\ seen' = summarizer_reads(state')
                /\ result' = [text   |-> summarizer(state', llm).text,
                              called |-> summarizer(state', llm).called,
                              llm    |-> llm]
                /\ summary' = result'.text
                /\ trace' = ConsultationOrder
                /\ node' = "done"
                /\ UNCHANGED error
    /\ UNCHANGED <<args, plan, update>>
    /\ UNCHANGED <<pc, messages, choice, hops, k, calls, executed>>

\* summarizer(state, detailed)
Summarize ==
    /\ node = "call"
    /\ args.fn = "summarizer"
    /\ \E llm \in LLMOutcomes :
          /\ result' = [text   |-> summarizer(state, llm).text,
                        called |-> summarizer(state, llm).called,
                        llm    |-> llm]
          /\ summary' = result'.text
          /\ seen' = summarizer_reads(state)
    /\ node' = "done"
    /\ UNCHANGED <<args, agent, plan, state, trace, update, error>>
    /\ UNCHANGED <<pc, messages, choice, hops, k, calls, executed>>

ANext ==
    \/ HydrationSupplementAgent
    \/ GenerateHydrationPlan
    \/ run_consultation
    \/ Summarize

ASpec == AInit /\ [][ANext]_vars


\* ---------------------------------------------------------------------
\* properties of the stand-alone agents
\* ---------------------------------------------------------------------

\* the call of the named function is over
Called(fn) == args.fn = fn /\ node # "call"

\* C18: run_consultation goes through goal capture, fitness, nutrition,
\* hydration/supplement and summarization in that order and reaches the
\* summarizer with user_goals, fitness_plan, nutrition_plan and supplements
\* in the state; no step before the summarization raises.
C18_ConsultationReachesSummary ==
    Called("run_consultation") =>
        /\ error = "none"
        /\ trace = ConsultationOrder
        /\ \A key \in {"user_goals", "fitness_plan", "nutrition_plan", "supplements"} :
              state[key] # Missing
        /\ summary # None


\* the workouts listed under day d of a week entry, in their listed order
WorkoutsUnder(entry, d) == [j \in 1..Len(entry.days[d]) |-> entry.days[d][j].workout]

\* the workouts of a week that fall on day d, in input order
OnDay(week, d) == SelectSeq(week, LAMBDA w : w.day_of_week = d)

\* the number of workouts listed in a week entry
RECURSIVE Listed(_, _)
Listed(entry, i) ==
    IF i = 0 THEN 0 ELSE Len(entry.days[Days[i]]) + Listed(entry, i - 1)

\* C19: the agent is constructed exactly when the number of workout weeks
\* equals cfg.weeks and ValueError is raised otherwise; the hydration plan
\* has cfg.weeks entries numbered 1..cfg.weeks in order, each with the seven
\* day keys, every workout of the week listed once, under its own day, in
\* input order.
C19_HydrationPlanShape ==
    Called("HydrationSupplementAgent") =>
        /\ (node = "raised") = (Len(args.workouts_by_week) # args.weeks)
        /\ node = "raised" => error = "ValueError"
        /\ node \in {"constructed", "done"} =>
              /\ Len(agent.weeks) = agent.cfg.weeks
              /\ agent.weeks = args.workouts_by_week
              /\ agent.cfg.weeks = args.weeks
        /\ node = "done" =>
              /\ Len(plan) = args.weeks
              /\ \A i \in 1..Len(plan) :
                    /\ plan[i].week = i
                    /\ DOMAIN plan[i].days = DaySet
                    /\ Cardinality(DaySet) = 7
                    /\ Listed(plan[i], Len(Days)) = Len(args.workouts_by_week[i])
                    /\ \A d \in DaySet :
                          WorkoutsUnder(plan[i], d) = OnDay(args.workouts_by_week[i], d)

\* a plan of two weeks whose first week has two workouts on one day
C19_Witness ==
    /\ Called("HydrationSupplementAgent")
    /\ node = "done"
    /\ Len(plan) = 2
    /\ Len(plan[1].days["Mon"]) = 2
    /\ plan[1].days["Mon"][1].workout # plan[1].days["Mon"][2].workout
    /\ Len(plan[2].days["Wed"]) = 1


\* the state handed to the summarizer has no messages and none of the plans
NothingToSummarize ==
    \A key \in {"messages", "fitness_plan", "nutrition_plan", "supplements"} :
        args.state[key] \in {Missing, None, <<>>}

\* the text holds the given line
HasLine(text, line) == \E i \in 1..Len(text) : text[i] = line

\* C20: summarizer never raises and returns non-empty text; with no
\* messages and no fitness, nutrition or supplement data it returns 'No
\* consultation data to summarize.' without calling the LLM; when the LLM
\* call raises it returns the fixed fallback summary; the state is left
\* unchanged.
C20_SummarizerTotal ==
    Called("summarizer") =>
        /\ node = "done"
        /\ error = "none"
        /\ summary \notin {None, <<>>}
        /\ ~Blank(summary)
        /\ NothingToSummarize => (summary = NoDataText /\ ~result.called)
        /\ ~NothingToSummarize => result.called
        /\ result.called /\ result.llm = Raises =>
              /\ HasLine(summary, "LIVE WELL AI - CONSULTATION SUMMARY")
              /\ HasLine(summary, "Unable to generate detailed summary at this time.")
        /\ result.called /\ result.llm # Raises =>
              HasLine(summary, "LIVE WELL AI - YOUR PERSONALIZED ACTION PLAN")
        /\ state = args.state

\* the LLM call raised on a state with a plan and the fallback came back
C20_Witness ==
    /\ Called("summarizer")
    /\ result.called
    /\ result.llm = Raises
    /\ state.fitness_plan = <<"f">>
    /\ state.messages = Missing
    /\ HasLine(summary, "Plans Generated: ")


\* ---------------------------------------------------------------------
\* request and result turns of a sent transcript
\* ---------------------------------------------------------------------

\* the turn at position p of transcript t is an assistant turn with requests
IsRequestTurn(t, p) == t[p].role = "assistant" /\ t[p].tool_calls # <<>>

\* in transcript t every request turn is directly followed by one result
\* turn per request, carrying the ids in the listed order, and every result
\* turn answers a request of the nearest assistant turn before it
Paired(t) ==
    \A p \in 1..Len(t) :
        /\ IsRequestTurn(t, p) =>
              LET n == Len(t[p].tool_calls)
              IN  /\ p + n <= Len(t)
                  /\ \A j \in 1..n :
                        /\ t[p + j].role = "tool"
                        /\ t[p + j].tool_call_id = t[p].tool_calls[j].id
                  /\ (p + n < Len(t) => t[p + n + 1].role # "tool")
        /\ t[p].role = "tool" =>
              \E q \in 1..(p - 1) :
                  /\ t[q].role = "assistant"
                  /\ \A m \in (q + 1)..(p - 1) : t[m].role = "tool"
                  /\ \E j \in 1..Len(t[q].tool_calls) :
                        /\ t[q].tool_calls[j].id = t[p].tool_call_id
                        /\ p = q + j

\* C21: in every transcript sent to the engine each assistant turn with
\* requests is directly followed by exactly one result turn per request id,
\* every result turn answers a request of the nearest assistant turn before
\* it, and the transcript of the call without tools holds no request turn
\* whose requests were not executed.
C21_RequestsPaired ==
    \A i \in 1..Len(calls) :
        /\ Paired(Sent(i))
        /\ calls[i].policy = FallbackPolicy =>
              \A p \in 1..calls[i].sent :
                  IsRequestTurn(messages, p) =>
                      \A j \in 1..Len(messages[p].tool_calls) :
                          \E e \in 1..Len(executed) :
                              /\ executed[e].id = messages[p].tool_calls[j].id
                              /\ executed[e].turn = p + j

\* the call without tools was sent over a transcript with a round of two
\* requests and a later round
C21_Witness ==
    /\ calls # <<>>
    /\ calls[Len(calls)].policy = FallbackPolicy
    /\ \E p \in 1..Len(messages) :
          /\ IsRequestTurn(messages, p)
          /\ Len(messages[p].tool_calls) = 2
          /\ p + 3 <= calls[Len(calls)].sent
          /\ IsRequestTurn(messages, p + 3)


\* ---------------------------------------------------------------------
\* tools/singapore_weather.py
\* ---------------------------------------------------------------------

\* line 29
PROVIDER_MAX_DAYS == 14

\* lines 32-36, in tenths (mm, percent, degrees Celsius)
RAINY_DAY_MM == 10

RAINY_PROB_PCT == 600

SUNNY_TEMP_MAX_C == 310

SUNNY_MAX_PROB_PCT == 200

SUNNY_MAX_MM == 5

\* an absent daily value
NoValue == -1

Min(a, b) == IF a <= b THEN a ELSE b

\* lines 38-55
classify_day(temp_max_c, precip_mm, precip_prob_max) ==
    IF \/ (precip_mm # NoValue /\ precip_mm >= RAINY_DAY_MM)
       \/ (precip_prob_max # NoValue /\ precip_prob_max >= RAINY_PROB_PCT)
    THEN "Rainy"
    ELSE IF /\ temp_max_c # NoValue /\ temp_max_c >= SUNNY_TEMP_MAX_C
            /\ precip_prob_max # NoValue /\ precip_prob_max <= SUNNY_MAX_PROB_PCT
            /\ precip_mm # NoValue /\ precip_mm <= SUNNY_MAX_MM
    THEN "Sunny"
    ELSE "Normal"

\* the daily values of one day as the provider sends them, in tenths
DayValues ==
    {[tmax |-> 320, psum |-> 0, pprob |-> 100],
     [tmax |-> 290, psum |-> 25, pprob |-> 300],
     [tmax |-> 300, psum |-> NoValue, pprob |-> NoValue]}

\* what the fetch of lines 79-86 can do: fail, or deliver the daily series
\* of some number of days
ProviderAnswers(max_rows) ==
    {[failed |-> TRUE, n |-> 0, day |-> CHOOSE x \in DayValues : TRUE]}
    \cup {[failed |-> FALSE, n |-> n, day |-> d] : n \in 0..max_rows, d \in DayValues}

\* line 62
n_days(days) == Min(days, PROVIDER_MAX_DAYS)

\* lines 57-108: the rows returned for the requested days and the answer
forecast_sg_weather(days, answer) ==
    IF answer.failed
    THEN [i \in 1..days |-> [date |-> <<"day+", ToString(i)>>, condition |-> "Normal"]]
    ELSE [i \in 1..Min(answer.n, n_days(days)) |->
            [date |-> <<"date", ToString(i)>>,
             condition |-> classify_day(answer.day.tmax, answer.day.psum, answer.day.pprob)]]

\* line 124: the lines "date: condition" joined by newlines
RECURSIVE join_rows(_)
join_rows(rows) ==
    IF rows = <<>> THEN <<>>
    ELSE Head(rows).date \o <<": ", Head(rows).condition>>
         \o (IF Len(rows) > 1 THEN <<"\n">> ELSE <<>>) \o join_rows(Tail(rows))

\* lines 115-124
singapore_weather_text(days, answer) == join_rows(forecast_sg_weather(days, answer))

\* ---------------------------------------------------------------------
\* agents/nutritionist.py: plan_for_4_weeks
\* ---------------------------------------------------------------------

Max(a, b) == IF a >= b THEN a ELSE b

\* int(round(n / d)) for d > 0: round() takes a tie to the even neighbour
Round(n, d) ==
    LET q == n \div d
        r == n % d
    IN  IF 2 * r < d THEN q
        ELSE IF 2 * r > d THEN q + 1
        ELSE IF q % 2 = 0 THEN q ELSE q + 1

\* an absent Optional number
NoNumber == 0

\* lines 118-125: the activity factors, in fortieths
ACTIVITY_FACTORS(level) ==
    CASE level = "sedentary"   -> 48
      [] level = "light"       -> 55
      [] level = "moderate"    -> 62
      [] level = "active"      -> 69
      [] level = "very_active" -> 76
      [] OTHER                 -> 55

\* lines 130-134: the weight as a fraction [n, d]; 24 * (h/100)^2 = 3h^2/1250
default_weight(height_cm) ==
    IF height_cm # NoNumber /\ 140 <= height_cm /\ height_cm <= 210
    THEN [n |-> 3 * height_cm * height_cm, d |-> 1250]
    ELSE [n |-> 75, d |-> 1]

\* lines 136-143: BMR as a fraction over 4 * weight.d
mifflin_st_jeor_bmr(sex, weight, height_cm, age) ==
    [n |-> 40 * weight.n + 25 * height_cm * weight.d - 20 * age * weight.d
           + (IF sex = "female" THEN -644 ELSE 20) * weight.d,
     d |-> 4 * weight.d]

\* lines 145-147
tdee(bmr, activity_level) ==
    [n |-> bmr.n * ACTIVITY_FACTORS(activity_level), d |-> bmr.d * 40]

\* lines 367-376
infer_activity_from_workouts(workouts_per_week) ==
    IF workouts_per_week <= 1 THEN "sedentary"
    ELSE IF workouts_per_week = 2 THEN "light"
    ELSE IF workouts_per_week = 3 THEN "moderate"
    ELSE IF workouts_per_week = 4 THEN "active"
    ELSE "very_active"

\* lines 378-393
pick_workout_days(workouts_per_week) ==
    IF workouts_per_week <= 0 THEN <<>>
    ELSE IF workouts_per_week = 1 THEN <<3>>
    ELSE IF workouts_per_week = 2 THEN <<2, 5>>
    ELSE IF workouts_per_week = 3 THEN <<2, 4, 6>>
    ELSE IF workouts_per_week = 4 THEN <<1, 3, 5, 7>>
    ELSE IF workouts_per_week = 5 THEN <<1, 2, 4, 5, 7>>
    ELSE <<1, 2, 3, 5, 6, 7>>

\* faulty variant: the carbohydrate grams are not cut off at zero
carbs_g_unclamped(kcal, kcal_pf) == Round(kcal - kcal_pf, 4)

\* lines 156-157
carbs_g(kcal, kcal_pf) == Max(0, Round(kcal - kcal_pf, 4))

\* lines 149-158; the grams per kg are given in tenths
macro_targets(weight, kcal_rest, kcal_workout, protein_g_per_kg, fat_g_per_kg) ==
    LET protein_g == Round(weight.n * protein_g_per_kg, weight.d * 10)
        fat_g     == Round(weight.n * fat_g_per_kg, weight.d * 10)
        kcal_pf   == protein_g * 4 + fat_g * 9
    IN  [protein_g |-> protein_g, fat_g |-> fat_g,
         carbs_rest_g |-> carbs_g(kcal_rest, kcal_pf),
         carbs_workout_g |-> carbs_g(kcal_workout, kcal_pf)]

\* x in the list xs
InSeq(x, xs) == \E i \in 1..Len(xs) : xs[i] = x

\* lines 263-338: the targets and the rotation of the plan
plan_for_4_weeks(user, prefs) ==
    LET weight    == IF user.weight_kg # NoNumber
                     THEN [n |-> user.weight_kg, d |-> 1]
                     ELSE default_weight(user.height_cm)
        height_cm == IF user.height_cm # NoNumber THEN user.height_cm ELSE 175
        age       == IF user.age # NoNumber THEN user.age ELSE 30
        sex       == IF user.sex = "" THEN "male" ELSE user.sex
        activity  == IF user.activity_level # ""
                     THEN user.activity_level
                     ELSE infer_activity_from_workouts(user.workouts_per_week)
        bmr       == mifflin_st_jeor_bmr(sex, weight, height_cm, age)
        tdee_est  == tdee(bmr, activity)
        kcal_rest == Max(prefs.min_kcal_floor,
                         Round(tdee_est.n - prefs.target_daily_deficit_kcal * tdee_est.d,
                               tdee_est.d))
        kcal_workout == kcal_rest + prefs.workout_day_bonus_kcal
        macros    == macro_targets(weight, kcal_rest, kcal_workout,
                                   prefs.protein_g_per_kg, prefs.fat_g_per_kg)
        workout_days == pick_workout_days(user.workouts_per_week)
    IN  [targets |-> [kcal_rest |-> kcal_rest, kcal_workout |-> kcal_workout,
                      protein_g |-> macros.protein_g, fat_g |-> macros.fat_g,
                      carbs_rest_g |-> macros.carbs_rest_g,
                      carbs_workout_g |-> macros.carbs_workout_g],
         rotation_days |->
             [i \in 1..7 |->
                 [day_index |-> i,
                  is_workout_day |-> InSeq(i, workout_days),
                  kcal_target |-> IF InSeq(i, workout_days) THEN kcal_workout ELSE kcal_rest]]]

\* user profiles (lines 37-51): absent values are None in the source
UserProfiles(max_workouts) ==
    [sex : {"", "male", "female"},
     age : {NoNumber, 28},
     height_cm : {NoNumber, 175, 230},
     weight_kg : {NoNumber, 75, 150},
     activity_level : {"", "sedentary", "very_active", "unlisted"},
     workouts_per_week : 0..max_workouts]

\* preferences (lines 53-64): the defaults, a deficit that reaches the
\* floor, no workout bonus
Prefs ==
    [target_daily_deficit_kcal : {500, 3000},
     workout_day_bonus_kcal : {200, 0},
     min_kcal_floor : {1200},
     protein_g_per_kg : {18},
     fat_g_per_kg : {8}]

\* ---------------------------------------------------------------------
\* calls of the tool and planning functions
\* ---------------------------------------------------------------------

NoUser == CHOOSE u \in UserProfiles(0) : TRUE

NoPrefs == CHOOSE q \in Prefs : TRUE

NoAnswer == [failed |-> TRUE, n |-> 0, day |-> CHOOSE x \in DayValues : TRUE]

WeatherCalls(max_days) ==
    {[fn |-> "singapore_weather", days |-> d, answer |-> a, user |-> NoUser,
      prefs |-> NoPrefs] :
        d \in 0..max_days, a \in ProviderAnswers(max_days)}

PlanCalls(max_workouts) ==
    {[fn |-> "plan_for_4_weeks", days |-> 0, answer |-> NoAnswer, user |-> u,
      prefs |-> q] :
        u \in UserProfiles(max_workouts), q \in Prefs}

FInit ==
    /\ args \in WeatherCalls(MaxDays) \cup PlanCalls(MaxWorkoutsPerWeek)
    /\ node = "call"
    /\ plan = <<>>
    /\ summary = None
    /\ state = NoState
    /\ agent = <<>>
    /\ trace = <<>>
    /\ seen = <<>>
    /\ error = "none"
    /\ result = [text |-> None, called |-> FALSE, llm |-> None]
    /\ update = [fitness_plan |-> Missing]
    /\ pc = "start" /\ messages = <<>> /\ choice = NoChoice /\ hops = 0 /\ k = 0
    /\ calls = <<>> /\ executed = <<>>

\* singapore_weather(days), with the rows forecast_sg_weather handed to it
singapore_weather_call ==
    /\ node = "call"
    /\ args.fn = "singapore_weather"
    /\ plan' = forecast_sg_weather(args.days, args.answer)
    /\ summary' = singapore_weather_text(args.days, args.answer)
    /\ node' = "done"
    /\ UNCHANGED <<args, agent, state, trace, seen, result, update, error>>
    /\ UNCHANGED <<pc, messages, choice, hops, k, calls, executed>>

\* plan_for_4_weeks(user, prefs)
plan_for_4_weeks_call ==
    /\ node = "call"
    /\ args.fn = "plan_for_4_weeks"
    /\ plan' = plan_for_4_weeks(args.user, args.prefs)
    /\ node' = "done"
    /\ UNCHANGED <<args, agent, state, trace, seen, summary, result, update, error>>
    /\ UNCHANGED <<pc, messages, choice, hops, k, calls, executed>>

FNext ==
    \/ singapore_weather_call
    \/ plan_for_4_weeks_call

FSpec == FInit /\ [][FNext]_vars

\* the number of lines of a joined text
Lines(text) ==
    IF text = <<>> THEN 0
    ELSE 1 + Cardinality({i \in 1..Len(text) : text[i] = "\n"})

\* C22: for every requested number of days forecast_sg_weather returns at
\* most min(days, PROVIDER_MAX_DAYS) rows, when the fetch succeeds and when
\* it fails, so singapore_weather emits at most 14 lines.
C22_RowsCapped ==
    Called("singapore_weather") =>
        /\ Len(plan) <= Min(args.days, PROVIDER_MAX_DAYS)
        /\ Lines(summary) = Len(plan)
        /\ Lines(summary) <= 14


\* C23: for every profile and preferences kcal_rest is at least
\* min_kcal_floor, kcal_workout is kcal_rest plus the workout-day bonus, both
\* carbohydrate targets are non-negative, and each rotation day's
\* kcal_target is kcal_workout on a workout day and kcal_rest otherwise.
C23_TargetsWithinRails ==
    (Called("plan_for_4_weeks") /\ node = "done") =>
        /\ plan.targets.kcal_rest >= args.prefs.min_kcal_floor
        /\ plan.targets.kcal_workout
              = plan.targets.kcal_rest + args.prefs.workout_day_bonus_kcal
        /\ plan.targets.carbs_rest_g >= 0
        /\ plan.targets.carbs_workout_g >= 0
        /\ \A i \in 1..Len(plan.rotation_days) :
              plan.rotation_days[i].kcal_target =
                  (IF plan.rotation_days[i].is_workout_day
                   THEN plan.targets.kcal_workout
                   ELSE plan.targets.kcal_rest)

\* a heavy user with a deep deficit: the floor was applied, the protein and
\* fat calories exceed it, and workout and rest days differ
C23_Witness ==
    /\ Called("plan_for_4_weeks")
    /\ node = "done"
    /\ args.user.weight_kg = 150
    /\ plan.targets.kcal_rest = 1200
    /\ plan.targets.protein_g * 4 + plan.targets.fat_g * 9 > 1400
    /\ plan.targets.carbs_workout_g = 0
    /\ plan.rotation_days[2].kcal_target = 1400
    /\ plan.rotation_days[1].kcal_target = 1200


\* the days of the rotation marked as workout days
MarkedDays == {i \in 1..Len(plan.rotation_days) : plan.rotation_days[i].is_workout_day}

\* C24: the rotation has exactly 7 days with day_index 1..7 in order, and
\* for every workouts_per_week from 0 to 7 the number of days marked
\* is_workout_day equals workouts_per_week.
C24_RotationMarksWorkouts ==
    (Called("plan_for_4_weeks") /\ node = "done") =>
        /\ Len(plan.rotation_days) = 7
        /\ \A i \in 1..Len(plan.rotation_days) : plan.rotation_days[i].day_index = i
        /\ args.user.workouts_per_week \in 0..7 =>
              Cardinality(MarkedDays) = args.user.workouts_per_week

====
